---- MODULE Spec2Model ----
(***************************************************************************)
(* Model of the concurrent crawl engine of src/crab/crawling.go:           *)
(* threadedCrawl (scheduler, closer goroutine, drain loop), crawlURL       *)
(* (one goroutine per launched task), isURLAllowedByRobotsTXT (robots      *)
(* gate) and createSiteMap (aggregation and persistence).                  *)
(***************************************************************************)
EXTENDS Integers, Sequences, FiniteSets, TLC

(* ------------------------------ bounds --------------------------------- *)

\* longest task list handed to threadedCrawl
MaxTasks == 3

\* largest value of concurrentCrawlers
MaxCap == 4

\* most anchor tags on a fetched page
MaxAnchors == 2

(* ------------------------------ inputs --------------------------------- *)

\* HTTP outcome "no response": the request failed before any status arrived
NoResponse == 0

\* seed URLs the task lists are drawn from
SeedPool == <<"http://a.test/", "http://b.test/", "http://c.test/",
              "http://d.test/", "not a url", "http://e.test/",
              "http://bad host/">>

Seeds == {SeedPool[i] : i \in 1..Len(SeedPool)}

\* the network the crawl runs against, per seed URL:
\*   robots  - what the robots.txt exchange of the seed's host ends with:
\*             "geterr" (GET fails), "parseerr" (document unparseable),
\*             "allow" / "deny" (TestAgent's answer for agent GoEngine)
\*   status  - HTTP status of the page fetch, or NoResponse
\*   anchors - number of a[href] elements of the page
Web(u) ==
    CASE u = "http://a.test/"   -> [robots |-> "allow",    status |-> 200, anchors |-> MaxAnchors]
      [] u = "http://b.test/"   -> [robots |-> "allow",    status |-> 404, anchors |-> 1]
      [] u = "http://c.test/"   -> [robots |-> "deny",     status |-> 200, anchors |-> 1]
      [] u = "http://d.test/"   -> [robots |-> "geterr",   status |-> 202, anchors |-> 1]
      [] u = "http://e.test/"   -> [robots |-> "parseerr", status |-> NoResponse, anchors |-> 0]
      [] u = "not a url"        -> [robots |-> "allow",    status |-> NoResponse, anchors |-> 0]
      [] u = "http://bad host/" -> [robots |-> "allow",    status |-> NoResponse, anchors |-> 0]

\* a CrawlTask as the caller builds it (getURLsToCrawl): no links yet
URLData(u) == [URL |-> u, Links |-> <<>>]

\* the seeds at the positions in S, in pool order
RECURSIVE Pick(_)
Pick(S) ==
    IF S = {} THEN <<>>
    ELSE LET k == CHOOSE x \in S : \A y \in S : x <= y
         IN <<URLData(SeedPool[k])>> \o Pick(S \ {k})

\* the list us in reverse order
Reverse(us) == [i \in 1..Len(us) |-> us[Len(us) + 1 - i]]

\* the same seed n times
Repeat(u, n) == [i \in 1..n |-> URLData(u)]

\* task lists handed to threadedCrawl: up to MaxTasks distinct seeds in pool
\* order or in reverse pool order, and lists repeating one seed
TaskLists ==
    LET picks == {Pick(S) : S \in {T \in SUBSET (1..Len(SeedPool)) :
                                       Cardinality(T) <= MaxTasks}}
    IN picks \cup {Reverse(us) : us \in picks}
             \cup {Repeat("http://a.test/", n) : n \in 2..MaxTasks}

VARIABLES
    urls,                \* threadedCrawl's task list
    concurrentCrawlers,  \* threadedCrawl's cap
    mpc,                 \* scheduler position: loop, spawn, drain, sitemap, done
    idx,                 \* index of the loop's current task
    wgCount,             \* sync.WaitGroup counter
    ch,                  \* buffered results channel (FIFO contents)
    closed,              \* whether ch has been closed
    cpc,                 \* closer goroutine: none, wait, done
    wpc,                 \* per worker position in crawlURL
    urlData,             \* per worker: crawlURL's local urlData
    anchors,             \* per worker: hrefs of the fetched page not yet visited
    crawledURLs,         \* the drained sequence
    siteMap,             \* createSiteMap's map
    file,                \* siteMap.json: "absent", "empty" or "sitemap"
    retErr,              \* createSiteMap's return value: "none", "nil", "error"
    failed,              \* observed: which steps of createSiteMap failed
    robots,              \* observed: per worker, what the robots gate returned
    fetches,             \* observed: per worker, statuses of its page fetches
    sent,                \* observed: per worker, number of channel sends
    dones,               \* observed: per worker, number of wg.Done calls
    closes,              \* observed: number of close(ch) calls
    panicked,            \* observed: a send on the closed channel, a second
                         \* close, or a negative WaitGroup counter happened
    limitOn,             \* per worker: its collectors that carry the limit rule
    pushed,              \* observed: per worker, the values it sent, in order
    delayed,             \* observed: per worker and page request, whether the
                         \* limit rule was in force on the requesting collector
    writes               \* observed: number of ioutil.WriteFile calls

vars == <<urls, concurrentCrawlers, mpc, idx, wgCount, ch, closed, cpc, wpc,
          urlData, anchors, crawledURLs, siteMap, file, retErr, failed,
          robots, fetches, sent, dones, closes, panicked, limitOn, pushed,
          delayed, writes>>

Workers == 1..MaxTasks

\* cap(ch): make(chan URLData, len(urls))
ChanCap == Len(urls)

(* ---------------------------- robots gate ------------------------------ *)

\* net/url.Parse on the seeds: a blank inside the host is an error, while a
\* string without scheme parses as a relative reference with an empty host
UrlParse(urlStr) ==
    CASE urlStr = "http://bad host/" -> [err |-> TRUE,  Host |-> ""]
      [] urlStr = "not a url"        -> [err |-> FALSE, Host |-> ""]
      [] urlStr = "http://a.test/"   -> [err |-> FALSE, Host |-> "a.test"]
      [] urlStr = "http://b.test/"   -> [err |-> FALSE, Host |-> "b.test"]
      [] urlStr = "http://c.test/"   -> [err |-> FALSE, Host |-> "c.test"]
      [] urlStr = "http://d.test/"   -> [err |-> FALSE, Host |-> "d.test"]
      [] urlStr = "http://e.test/"   -> [err |-> FALSE, Host |-> "e.test"]

RobotsURL(domain) == "http://" \o domain \o "/robots.txt"

\* http.Get(robotsURL) returns an error: a request URL without host is
\* refused by the client, any other request fails when the network does
GetFails(robotsURL, net) == robotsURL = "http:///robots.txt" \/ net = "geterr"

\* a gate that denies whenever the robots exchange does not end in "allow"
isURLAllowedFailClosed(urlStr, net) ==
    IF UrlParse(urlStr).err THEN [allowed |-> FALSE, requested |-> FALSE]
    ELSE [allowed |-> (net = "allow" /\ UrlParse(urlStr).Host # ""),
          requested |-> TRUE]

\* isURLAllowedByRobotsTXT: [allowed, requested] where requested tells
\* whether the robots.txt GET was issued
isURLAllowedByRobotsTXT(urlStr, net) ==
    LET parsed == UrlParse(urlStr) IN
    IF parsed.err THEN [allowed |-> FALSE, requested |-> FALSE]
    ELSE LET robotsURL == RobotsURL(parsed.Host) IN
         IF GetFails(robotsURL, net) THEN [allowed |-> TRUE, requested |-> TRUE]
         ELSE IF net = "parseerr" THEN [allowed |-> TRUE, requested |-> TRUE]
         ELSE [allowed |-> (net = "allow"), requested |-> TRUE]

(* -------------------------- sitemap aggregator ------------------------- *)

\* an assignment that keeps the value a key already has
MapPutKeepFirst(m, u) ==
    [k \in (DOMAIN m) \cup {u.URL} |-> IF k \in DOMAIN m THEN m[k] ELSE u.Links]

\* siteMap[urlData.URL] = urlData.Links
MapPut(m, u) ==
    [k \in (DOMAIN m) \cup {u.URL} |-> IF k = u.URL THEN u.Links ELSE m[k]]

RECURSIVE BuildSiteMap(_, _)
\* the range loop of createSiteMap over urls, starting from map m
BuildSiteMap(m, us) ==
    IF us = <<>> THEN m ELSE BuildSiteMap(MapPut(m, Head(us)), Tail(us))

EmptyMap == [k \in {} |-> <<>>]

\* the error createSiteMap returns: err is reassigned by WriteFile
SiteMapErr(marshalFails, writeFails) == IF writeFails THEN "error" ELSE "nil"

\* what siteMap.json holds afterwards: jsonData is nil when Marshal failed
SiteMapFile(marshalFails, writeFails) ==
    IF writeFails THEN "absent" ELSE IF marshalFails THEN "empty" ELSE "sitemap"

(* ------------------------------- Init ---------------------------------- *)

Init ==
    /\ urls \in TaskLists
    /\ concurrentCrawlers \in 0..MaxCap
    /\ mpc = "loop"
    /\ idx = 1
    /\ wgCount = 0
    /\ ch = <<>>
    /\ closed = FALSE
    /\ cpc = "none"
    /\ wpc = [w \in Workers |-> "idle"]
    /\ urlData = [w \in Workers |-> URLData("")]
    /\ anchors = [w \in Workers |-> <<>>]
    /\ crawledURLs = <<>>
    /\ siteMap = EmptyMap
    /\ file = "absent"
    /\ retErr = "none"
    /\ failed = [marshal |-> FALSE, write |-> FALSE]
    /\ robots = [w \in Workers |-> [allowed |-> FALSE, requested |-> FALSE]]
    /\ fetches = [w \in Workers |-> <<>>]
    /\ sent = [w \in Workers |-> 0]
    /\ dones = [w \in Workers |-> 0]
    /\ closes = 0
    /\ panicked = FALSE
    /\ limitOn = [w \in Workers |-> {}]
    /\ pushed = [w \in Workers |-> <<>>]
    /\ delayed = [w \in Workers |-> <<>>]
    /\ writes = 0

(* ----------------------------- scheduler ------------------------------ *)

\* a break test that lets a list of exactly cap tasks through
BreakLoopStrict == Len(urls) > concurrentCrawlers

\* the break test at the end of each loop iteration
BreakLoop == Len(urls) >= concurrentCrawlers

\* one iteration of the range loop: wg.Add(1), go func(u){...}(urlData),
\* then the break test
Launch ==
    /\ mpc = "loop"
    /\ idx <= Len(urls)
    /\ wgCount' = wgCount + 1
    /\ wpc' = [wpc EXCEPT ![idx] = "start"]
    /\ urlData' = [urlData EXCEPT ![idx] = urls[idx]]
    /\ IF BreakLoop
         THEN mpc' = "spawn" /\ idx' = idx
         ELSE mpc' = "loop" /\ idx' = idx + 1
    /\ UNCHANGED <<urls, concurrentCrawlers, ch, closed, cpc, anchors,
                   crawledURLs, siteMap, file, retErr, writes, failed,
                   robots, limitOn, fetches, delayed, sent, pushed, dones,
                   closes, panicked>>

\* the range loop runs out of tasks
LoopEnd ==
    /\ mpc = "loop"
    /\ idx > Len(urls)
    /\ mpc' = "spawn"
    /\ UNCHANGED <<urls, concurrentCrawlers, idx, wgCount, ch, closed, cpc,
                   wpc, urlData, anchors, crawledURLs, siteMap, file, retErr,
                   writes, failed, robots, limitOn, fetches, delayed, sent,
                   pushed, dones, closes, panicked>>

\* go func() { wg.Wait(); close(ch) }()
SpawnCloser ==
    /\ mpc = "spawn"
    /\ mpc' = "drain"
    /\ cpc' = "wait"
    /\ UNCHANGED <<urls, concurrentCrawlers, idx, wgCount, ch, closed, wpc,
                   urlData, anchors, crawledURLs, siteMap, file, retErr,
                   writes, failed, robots, limitOn, fetches, delayed, sent,
                   pushed, dones, closes, panicked>>

\* a closer that does not wait for the workers
WaitReturnsAtOnce == TRUE

\* wg.Wait() returns
WaitReturns == wgCount = 0

\* the closer goroutine: wg.Wait() returns, then close(ch)
CloserClose ==
    /\ cpc = "wait"
    /\ WaitReturns
    /\ cpc' = "done"
    /\ closed' = TRUE
    /\ closes' = closes + 1
    /\ panicked' = (panicked \/ closed)
    /\ UNCHANGED <<urls, concurrentCrawlers, mpc, idx, wgCount, ch, wpc,
                   urlData, anchors, crawledURLs, siteMap, file, retErr,
                   writes, failed, robots, limitOn, fetches, delayed, sent,
                   pushed, dones>>

\* a receive that takes the value sent last
RecvLIFO ==
    /\ mpc = "drain"
    /\ ch # <<>>
    /\ crawledURLs' = Append(crawledURLs, ch[Len(ch)])
    /\ ch' = SubSeq(ch, 1, Len(ch) - 1)
    /\ UNCHANGED <<urls, concurrentCrawlers, mpc, idx, wgCount, closed, cpc,
                   wpc, urlData, anchors, siteMap, file, retErr, writes,
                   failed, robots, limitOn, fetches, delayed, sent, pushed,
                   dones, closes, panicked>>

\* one iteration of "for urlData := range ch": receive and append
Recv ==
    /\ mpc = "drain"
    /\ ch # <<>>
    /\ crawledURLs' = Append(crawledURLs, Head(ch))
    /\ ch' = Tail(ch)
    /\ UNCHANGED <<urls, concurrentCrawlers, mpc, idx, wgCount, closed, cpc,
                   wpc, urlData, anchors, siteMap, file, retErr, writes,
                   failed, robots, limitOn, fetches, delayed, sent, pushed,
                   dones, closes, panicked>>

\* a range loop that ends as soon as it finds the channel empty
DrainEndWhenEmpty ==
    /\ mpc = "drain"
    /\ ch = <<>>
    /\ mpc' = "sitemap"
    /\ UNCHANGED <<urls, concurrentCrawlers, idx, wgCount, ch, closed, cpc,
                   wpc, urlData, anchors, crawledURLs, siteMap, file, retErr,
                   writes, failed, robots, limitOn, fetches, delayed, sent,
                   pushed, dones, closes, panicked>>

\* the range loop over ch ends: the channel is closed and empty
DrainEnd ==
    /\ mpc = "drain"
    /\ ch = <<>>
    /\ closed
    /\ mpc' = "sitemap"
    /\ UNCHANGED <<urls, concurrentCrawlers, idx, wgCount, ch, closed, cpc,
                   wpc, urlData, anchors, crawledURLs, siteMap, file, retErr,
                   writes, failed, robots, limitOn, fetches, delayed, sent,
                   pushed, dones, closes, panicked>>

\* createSiteMap(crawledURLs) and the caller's log of its error
CreateSiteMap ==
    /\ mpc = "sitemap"
    /\ \E marshalFails \in BOOLEAN, writeFails \in BOOLEAN :
         /\ siteMap' = BuildSiteMap(EmptyMap, crawledURLs)
         /\ file' = SiteMapFile(marshalFails, writeFails)
         /\ retErr' = SiteMapErr(marshalFails, writeFails)
         /\ failed' = [marshal |-> marshalFails, write |-> writeFails]
    /\ writes' = writes + 1
    /\ mpc' = "done"
    /\ UNCHANGED <<urls, concurrentCrawlers, idx, wgCount, ch, closed, cpc,
                   wpc, urlData, anchors, crawledURLs, robots, limitOn,
                   fetches, delayed, sent, pushed, dones, closes, panicked>>

(* ------------------------------ workers -------------------------------- *)

\* colly hands a response to the OnResponse and OnHTML callbacks only when the
\* request succeeded with a status below 203; otherwise OnError runs alone
CallbacksRun(st) == st # NoResponse /\ st < 203

\* the status c.Visit(urlStr) ends with: a URL without host gets no response
FetchStatus(urlStr) ==
    IF UrlParse(urlStr).Host = "" THEN NoResponse ELSE Web(urlStr).status

\* the hrefs of the a[href] elements of the page, in page order
Hrefs(urlStr) == [k \in 1..Web(urlStr).anchors |-> k]

\* e.Request.AbsoluteURL(e.Attr("href")): the href resolved against the page
AbsoluteURL(page, href) == <<page, href>>

\* closures of every worker sharing the first worker's task
SharedOwner(w) == 1

\* whose urlData the closures registered by worker w read and write: the
\* by-value parameter of w's own crawlURL call
Owner(w) == w

\* a channel whose last buffer slot can never be filled
CanSendOffByOne == closed \/ Len(ch) + 1 < ChanCap

\* a channel send can proceed (a send on a closed channel panics at once)
CanSend == closed \/ Len(ch) < ChanCap

\* ch <- urlData by worker w; kind names the send statement: "resp" for the
\* one in the OnResponse callback, "final" for the one after c.Visit
Send(w, kind) ==
    /\ CanSend
    /\ ch' = IF closed THEN ch ELSE Append(ch, urlData[Owner(w)])
    /\ panicked' = (panicked \/ closed)
    /\ sent' = [sent EXCEPT ![w] = @ + 1]
    /\ pushed' = [pushed EXCEPT ![w] =
                     Append(@, [kind |-> kind, Links |-> urlData[Owner(w)].Links])]

\* a denied worker that leaves without running the deferred wg.Done()
AfterGateNoDefer(allowed) == IF allowed THEN "visit" ELSE "exited"

\* a worker that goes on to fetch whatever the gate answered
AfterGateIgnored(allowed) == "visit"

\* "if !allowed { return }": the return runs the deferred wg.Done()
AfterGate(allowed) == IF allowed THEN "visit" ELSE "ret"

\* the collectors of a worker on which c.Limit(rateLimitRule) is called: the
\* one the goroutine creates before it calls crawlURL ("outer"); the one
\* crawlURL creates and fetches with ("inner") gets no rule
LimitedCollectors == {"outer"}

\* the collector whose Visit performs a worker's page request
FetchingCollector == "inner"

\* the goroutine's prologue (a collector that is given the limit rule), then
\* crawlURL up to the robots test: denied workers return at once
Gate(w) ==
    /\ wpc[w] = "start"
    /\ limitOn' = [limitOn EXCEPT ![w] = LimitedCollectors]
    /\ LET r == isURLAllowedByRobotsTXT(urlData[w].URL, Web(urlData[w].URL).robots) IN
         /\ robots' = [robots EXCEPT ![w] = r]
         /\ wpc' = [wpc EXCEPT ![w] = AfterGate(r.allowed)]
    /\ UNCHANGED <<urls, concurrentCrawlers, mpc, idx, wgCount, ch, closed,
                   cpc, urlData, anchors, crawledURLs, siteMap, file, retErr,
                   writes, failed, fetches, delayed, sent, pushed, dones,
                   closes, panicked>>

\* where c.Visit continues after the response callback
AfterResponse(w, hrefs) == IF hrefs = <<>> THEN "final" ELSE "html"

\* a response callback that sends on every status it is called with
PushesOnAnyResponse(st) == TRUE

\* the test of the OnResponse callback: r.StatusCode == 200
PushesOnResponse(st) == st = 200

\* c.Visit(urlData.URL) up to the first callback that can block: the request
\* is made, and either OnError runs (no further callback) or OnResponse is
\* entered; its non-200 branch only logs
Visit(w) ==
    /\ wpc[w] = "visit"
    /\ LET st == FetchStatus(urlData[w].URL)
           hrefs == IF CallbacksRun(st) THEN Hrefs(urlData[w].URL) ELSE <<>> IN
         /\ fetches' = [fetches EXCEPT ![w] = Append(@, st)]
         /\ delayed' = [delayed EXCEPT ![w] =
                          Append(@, FetchingCollector \in limitOn[w])]
         /\ anchors' = [anchors EXCEPT ![w] = hrefs]
         /\ wpc' = [wpc EXCEPT ![w] =
                      IF ~CallbacksRun(st) THEN "final"
                      ELSE IF PushesOnResponse(st) THEN "resp"
                      ELSE AfterResponse(w, hrefs)]
    /\ UNCHANGED <<urls, concurrentCrawlers, mpc, idx, wgCount, ch, closed,
                   cpc, urlData, crawledURLs, siteMap, file, retErr, writes,
                   failed, robots, limitOn, sent, pushed, dones, closes,
                   panicked>>

\* the 200 branch of the OnResponse callback: ch <- urlData
OnResponse(w) ==
    /\ wpc[w] = "resp"
    /\ Send(w, "resp")
    /\ wpc' = [wpc EXCEPT ![w] = AfterResponse(w, anchors[w])]
    /\ UNCHANGED <<urls, concurrentCrawlers, mpc, idx, wgCount, closed, cpc,
                   urlData, anchors, crawledURLs, siteMap, file, retErr,
                   writes, failed, robots, limitOn, fetches, delayed, dones,
                   closes>>

\* urlData.Links = append(urlData.Links, link)
AppendLink(ud, link) == [ud EXCEPT !.Links = Append(@, link)]

\* the first OnHTML("a[href]") callback, run by colly for the next a[href]
\* element of the page
OnHTML(w) ==
    /\ wpc[w] = "html"
    /\ anchors[w] # <<>>
    /\ LET link == AbsoluteURL(urlData[w].URL, Head(anchors[w])) IN
       urlData' = [urlData EXCEPT ![Owner(w)] = AppendLink(@, link)]
    /\ anchors' = [anchors EXCEPT ![w] = Tail(@)]
    /\ wpc' = [wpc EXCEPT ![w] = AfterResponse(w, Tail(anchors[w]))]
    /\ UNCHANGED <<urls, concurrentCrawlers, mpc, idx, wgCount, ch, closed,
                   cpc, crawledURLs, siteMap, file, retErr, writes, failed,
                   robots, limitOn, fetches, delayed, sent, pushed, dones,
                   closes, panicked>>

\* the send after c.Visit has returned
FinalSend(w) ==
    /\ wpc[w] = "final"
    /\ Send(w, "final")
    /\ wpc' = [wpc EXCEPT ![w] = "ret"]
    /\ UNCHANGED <<urls, concurrentCrawlers, mpc, idx, wgCount, closed, cpc,
                   urlData, anchors, crawledURLs, siteMap, file, retErr,
                   writes, failed, robots, limitOn, fetches, delayed, dones,
                   closes>>

\* crawlURL returns: the deferred wg.Done()
WorkerDone(w) ==
    /\ wpc[w] = "ret"
    /\ wgCount' = wgCount - 1
    /\ dones' = [dones EXCEPT ![w] = @ + 1]
    /\ panicked' = (panicked \/ wgCount - 1 < 0)
    /\ wpc' = [wpc EXCEPT ![w] = "exited"]
    /\ UNCHANGED <<urls, concurrentCrawlers, mpc, idx, ch, closed, cpc,
                   urlData, anchors, crawledURLs, siteMap, file, retErr,
                   writes, failed, robots, limitOn, fetches, delayed, sent,
                   pushed, closes>>

Next ==
    \/ Launch
    \/ LoopEnd
    \/ SpawnCloser
    \/ CloserClose
    \/ Recv
    \/ DrainEnd
    \/ CreateSiteMap
    \/ \E w \in Workers : Gate(w)
    \/ \E w \in Workers : Visit(w)
    \/ \E w \in Workers : OnResponse(w)
    \/ \E w \in Workers : OnHTML(w)
    \/ \E w \in Workers : FinalSend(w)
    \/ \E w \in Workers : WorkerDone(w)

Spec == Init /\ [][Next]_vars

\* the Go scheduler keeps running some runnable goroutine (the scheduler, the
\* closer or a worker) as long as there is one, and every robots check and
\* page fetch returns: the run never halts while a step is possible
FairSpec == Spec /\ WF_vars(Next)

(* ------------------------------ properties ----------------------------- *)

Launched == {w \in Workers : wpc[w] # "idle"}

PastGate == {w \in Workers : wpc[w] \notin {"idle", "start"}}

\* every value that is or was on the results channel and not yet aggregated
Entries == crawledURLs \o ch

\* C1: the results channel is closed at most once and, when the run is over,
\* exactly once; it is closed only after the scheduler has stopped launching
\* and every launched worker has signalled completion (WaitGroup counter 0);
\* no send on the closed channel and no second close ever happens.
C1_ChannelLifecycle ==
    /\ closes <= 1
    /\ closed <=> closes = 1
    /\ ~panicked
    /\ closed => /\ wgCount = 0
                 /\ mpc \notin {"loop", "spawn"}
                 /\ \A w \in Launched : wpc[w] = "exited" /\ dones[w] = 1
    /\ mpc \in {"sitemap", "done"} => closes = 1

\* C1 witness: the channel is closed after at least two workers, one of which
\* sent twice, have run to completion
C1_Witness ==
    /\ closed
    /\ Cardinality(Launched) >= 2
    /\ \E w \in Launched : sent[w] = 2

\* a run over three seeds with a cap above 3 where w1 is denied by the robots
\* gate, w2's fetch returned 404 and w3's returned 200 with two anchors
C2_Scenario(w1, w2, w3) ==
    /\ Len(urls) = 3
    /\ concurrentCrawlers > 3
    /\ {w1, w2, w3} = 1..3
    /\ ~robots[w1].allowed
    /\ fetches[w2] = <<404>>
    /\ fetches[w3] = <<200>>
    /\ Web(urls[w3].URL).anchors = 2

\* C2: at the end of such a run the sitemap has exactly one key, the 200 URL,
\* mapped to its two discovered links; the denied and the 404 URL are no keys.
C2_OnlyThe200URL ==
    \A w1, w2, w3 \in Workers :
        (mpc = "done" /\ C2_Scenario(w1, w2, w3)) =>
            /\ DOMAIN siteMap = {urls[w3].URL}
            /\ siteMap[urls[w3].URL] =
                   <<AbsoluteURL(urls[w3].URL, 1), AbsoluteURL(urls[w3].URL, 2)>>

\* C3: a launched task that the robots gate lets through produces exactly one
\* value on the results channel over the whole run: never more than one at
\* any time, and one once its worker has exited.
C3_ExactlyOneValue ==
    \A w \in PastGate :
        robots[w].allowed =>
            /\ sent[w] <= 1
            /\ wpc[w] = "exited" => sent[w] = 1

\* C4: when the task list is no longer than the cap (L <= C), every task has
\* a worker once the scheduler has left its launch loop.
C4_AllLaunchedUpToCap ==
    (mpc # "loop" /\ Len(urls) <= concurrentCrawlers) =>
        \A i \in 1..Len(urls) : i \in Launched

\* C5: the number of workers launched in a run never exceeds the cap; as the
\* launched tasks are a prefix of the list, this also says that no worker is
\* launched once the number of tasks already seen is >= the cap.
C5_LaunchedWithinCap == Cardinality(Launched) <= concurrentCrawlers

\* C6: every launched worker calls wg.Done() exactly once, when it leaves
\* crawlURL, whatever path it took (denied, fetch error, non-200, 200); a run
\* that is over has seen the Done of every launched worker; a worker denied
\* by the robots gate never fetches and never sends.
C6_DoneOncePerWorker ==
    /\ \A w \in Workers : dones[w] = IF wpc[w] = "exited" THEN 1 ELSE 0
    /\ wgCount = Cardinality({w \in Launched : wpc[w] # "exited"})
    /\ mpc = "done" => \A w \in Launched : dones[w] = 1
    /\ \A w \in PastGate :
          ~robots[w].allowed =>
              sent[w] = 0 /\ fetches[w] = <<>> /\ wpc[w] \in {"ret", "exited"}

\* C6 witness: three workers have exited with one Done each: one denied that
\* sent nothing, one whose fetch got no 200 and one whose fetch got 200
C6_Witness ==
    \E w1, w2, w3 \in Workers :
        /\ wpc[w1] = "exited" /\ wpc[w2] = "exited" /\ wpc[w3] = "exited"
        /\ dones[w1] = 1 /\ dones[w2] = 1 /\ dones[w3] = 1
        /\ ~robots[w1].allowed /\ sent[w1] = 0
        /\ robots[w2].allowed /\ fetches[w2] # <<200>>
        /\ fetches[w3] = <<200>>

\* the robots exchange for urlStr fails: the GET fails or the document cannot
\* be parsed
RobotsFails(urlStr) ==
    /\ ~UrlParse(urlStr).err
    /\ \/ GetFails(RobotsURL(UrlParse(urlStr).Host), Web(urlStr).robots)
       \/ Web(urlStr).robots = "parseerr"

\* C7: the gate fails open: a worker whose robots.txt GET failed or whose
\* robots document could not be parsed is allowed and goes on to fetch its
\* page (it is about to visit, or has made its one page request).
C7_FailOpen ==
    \A w \in PastGate :
        RobotsFails(urlData[w].URL) =>
            /\ robots[w].allowed
            /\ wpc[w] = "visit" \/ Len(fetches[w]) = 1

\* C7 witness: a worker whose robots.txt GET failed and a worker whose robots
\* document was unparseable have both fetched their page
C7_Witness ==
    \E w1, w2 \in PastGate :
        /\ Web(urlData[w1].URL).robots = "geterr" /\ UrlParse(urlData[w1].URL).Host # ""
        /\ Web(urlData[w2].URL).robots = "parseerr"
        /\ Len(fetches[w1]) = 1 /\ Len(fetches[w2]) = 1

\* the malformed seeds of the pool
Malformed == {"not a url", "http://bad host/"}

\* C8: the gate fails closed on malformed input: a worker whose seed is
\* malformed ("not a url" included) is denied without any robots.txt request
\* and its task produces no channel entry.
C8_FailClosedOnMalformed ==
    \A w \in PastGate :
        urlData[w].URL \in Malformed =>
            ~robots[w].allowed /\ ~robots[w].requested /\ sent[w] = 0

\* links is a prefix, in page order, of the links of page u
OwnLinks(u, links) ==
    /\ Len(links) <= Web(u).anchors
    /\ \A i \in 1..Len(links) : links[i] = AbsoluteURL(u, i)

\* C9: exclusive ownership: each worker holds the task of its own list
\* position, and the link sequence of every task value - a worker's own, one
\* on the channel, one drained, one in the sitemap - holds only links
\* discovered on that task's page, each once and in page order.
C9_ExclusiveOwnership ==
    /\ \A w \in Launched :
          urlData[w].URL = urls[w].URL /\ OwnLinks(urlData[w].URL, urlData[w].Links)
    /\ \A i \in 1..Len(Entries) : OwnLinks(Entries[i].URL, Entries[i].Links)
    /\ \A k \in DOMAIN siteMap : OwnLinks(k, siteMap[k])

\* C9 witness: a finished run whose sitemap holds links for two different pages
C9_Witness ==
    /\ mpc = "done"
    /\ \E k1, k2 \in DOMAIN siteMap :
          k1 # k2 /\ siteMap[k1] # <<>> /\ siteMap[k2] # <<>>

\* C10: createSiteMap returns a non-nil error exactly when the serialization
\* or the write failed.
C10_ErrorReported ==
    mpc = "done" => (retErr = "error" <=> (failed.marshal \/ failed.write))

RECURSIVE SumSent(_)
\* the number of sends made so far by the workers 1..n
SumSent(n) == IF n = 0 THEN 0 ELSE sent[n] + SumSent(n - 1)

\* C11: no worker is ever blocked on a send: in every reachable state a
\* worker about to push (in the 200 branch of OnResponse or at the final
\* send) finds free space in the channel's buffer.
C11_SendNeverBlocks ==
    \A w \in Workers : wpc[w] \in {"resp", "final"} => Len(ch) < ChanCap

\* C12: under fair scheduling threadedCrawl terminates for every mix of task
\* outcomes: eventually every launched worker has exited, the channel is
\* closed and drained and createSiteMap has been called.
C12_Terminates ==
    <>(/\ mpc = "done"
       /\ closed
       /\ ch = <<>>
       /\ writes = 1
       /\ \A w \in Launched : wpc[w] = "exited")

\* C12 witness: a finished run of several workers, one with a 200 response
\* and one with another status, that made more sends than the buffer has slots
C12_Witness ==
    /\ mpc = "done"
    /\ SumSent(MaxTasks) > ChanCap
    /\ \E w \in Launched : fetches[w] = <<200>>
    /\ \E w \in Launched : Len(fetches[w]) = 1 /\ fetches[w][1] # 200

\* C13: the sitemap is written at most once, by the scheduler, and only after
\* the channel has been closed and every launched worker has exited; while a
\* launched worker has not finished nothing is written.
C13_WriteOnceAfterJoin ==
    /\ writes <= 1
    /\ writes = 1 <=> mpc = "done"
    /\ file # "absent" => writes = 1
    /\ mpc \in {"sitemap", "done"} =>
          /\ closed
          /\ \A w \in Launched : wpc[w] = "exited"
    /\ (\E w \in Launched : wpc[w] # "exited") =>
          writes = 0 /\ file = "absent" /\ siteMap = EmptyMap

\* C13 witness: the sitemap file has been written after two workers ran
C13_Witness ==
    /\ writes = 1
    /\ file = "sitemap"
    /\ Cardinality(Launched) >= 2
    /\ \E w \in Launched : sent[w] = 2

\* the links of page u in discovery order, once every OnHTML callback of its
\* fetch has run; none when the fetch brought no parsable response
PageLinks(u) ==
    IF CallbacksRun(FetchStatus(u))
      THEN [k \in 1..Len(Hrefs(u)) |-> AbsoluteURL(u, Hrefs(u)[k])]
      ELSE <<>>

\* C14: every value a worker sends on the results channel, the one sent in
\* the 200-response callback as well as the final one, already carries all
\* links discovered for the page.
C14_PushesCarryAllLinks ==
    \A w \in Workers : \A i \in 1..Len(pushed[w]) :
        pushed[w][i].Links = PageLinks(urlData[w].URL)

\* C15: an allowed worker whose fetch returned 200 makes exactly two sends,
\* the second after the fetch has returned; an allowed worker whose fetch
\* failed or returned another status makes exactly one, the final send.
C15_TwoEntriesIff200 ==
    \A w \in Workers : wpc[w] \in {"ret", "exited"} /\ robots[w].allowed =>
        /\ Len(fetches[w]) = 1
        /\ sent[w] = Len(pushed[w])
        /\ IF fetches[w][1] = 200
             THEN sent[w] = 2 /\ pushed[w][1].kind = "resp"
                              /\ pushed[w][2].kind = "final"
             ELSE sent[w] = 1 /\ pushed[w][1].kind = "final"

\* C15 witness: three allowed workers have exited, one after a 200 response,
\* one after another status and one after a fetch without response
C15_Witness ==
    /\ \E w \in Workers : wpc[w] = "exited" /\ fetches[w] = <<200>>
                           /\ sent[w] = 2
    /\ \E w \in Workers : wpc[w] = "exited" /\ robots[w].allowed
                           /\ fetches[w] = <<NoResponse>> /\ sent[w] = 1
    /\ \E w \in Workers : wpc[w] = "exited" /\ robots[w].allowed
                           /\ Len(fetches[w]) = 1
                           /\ fetches[w][1] \notin {200, NoResponse}
                           /\ sent[w] = 1

\* C16: every page request a worker issues is made by a collector on which
\* the rate-limit rule is in force, so the rule's delay precedes the request.
C16_EveryRequestRateLimited ==
    \A w \in Workers : \A i \in 1..Len(delayed[w]) : delayed[w][i]

\* the index of the last entry of us with URL k
LastIndex(us, k) ==
    CHOOSE i \in 1..Len(us) :
        us[i].URL = k /\ \A j \in (i + 1)..Len(us) : us[j].URL # k

\* C17: createSiteMap maps each URL occurring in the drained sequence to the
\* link list of the last entry with that URL; the keys are exactly the URLs
\* occurring in the sequence. Stated of the map createSiteMap builds from
\* what has been drained so far, and of the map it did build.
C17_LastEntryWins ==
    LET m == BuildSiteMap(EmptyMap, crawledURLs) IN
      /\ DOMAIN m = {crawledURLs[i].URL : i \in 1..Len(crawledURLs)}
      /\ \A k \in DOMAIN m :
            m[k] = crawledURLs[LastIndex(crawledURLs, k)].Links
      /\ mpc = "done" => siteMap = m

\* C17 witness: createSiteMap has run on a sequence in which a URL occurs
\* three times, an entry with links before a later entry without, and whose
\* last entry for that URL has links
C17_Witness ==
    /\ mpc = "done"
    /\ \E i, j, k \in 1..Len(crawledURLs) :
          /\ i < j /\ j < k
          /\ crawledURLs[i].URL = crawledURLs[j].URL
          /\ crawledURLs[j].URL = crawledURLs[k].URL
          /\ crawledURLs[i].Links # <<>>
          /\ crawledURLs[j].Links = <<>>
          /\ k = LastIndex(crawledURLs, crawledURLs[k].URL)
          /\ siteMap[crawledURLs[k].URL] # <<>>
    /\ Cardinality(DOMAIN siteMap) >= 1

\* the number of workers the loop launches for L tasks and cap C
LaunchCount(L, C) == IF L < C THEN L ELSE IF L = 0 THEN 0 ELSE 1

\* C18: the loop launches L workers when L < C and min(L, 1) when L >= C;
\* the launched tasks are a prefix of the task list, in list order.
C18_LaunchCount ==
    /\ mpc = "loop" => Launched = 1..(idx - 1)
    /\ mpc # "loop" =>
          Launched = 1..LaunchCount(Len(urls), concurrentCrawlers)
    /\ \A w \in Launched : w <= Len(urls) /\ urlData[w].URL = urls[w].URL

\* C18 witness: the loop is over for a list of at least two tasks that is at
\* least as long as the cap, and only the first task has been launched
C18_Witness ==
    /\ mpc # "loop"
    /\ Len(urls) >= 2
    /\ Len(urls) >= concurrentCrawlers
    /\ concurrentCrawlers >= 2
    /\ Launched = {1}

\* C19: when a run completes, the keys of the sitemap are exactly the URLs
\* of the launched tasks that the robots gate allowed, whatever their fetch
\* returned.
C19_KeysAreAllowedLaunched ==
    mpc = "done" =>
        DOMAIN siteMap = {urls[w].URL : w \in {v \in Launched : robots[v].allowed}}

\* C19 witness: a completed run with a launched task the gate denied, an
\* allowed one with a 200 response and an allowed one with another status
C19_Witness ==
    /\ mpc = "done"
    /\ \E w \in Launched : ~robots[w].allowed /\ urls[w].URL \notin DOMAIN siteMap
    /\ \E w \in Launched : fetches[w] = <<200>> /\ urls[w].URL \in DOMAIN siteMap
    /\ \E w \in Launched : /\ Len(fetches[w]) = 1
                            /\ fetches[w][1] # 200
                            /\ urls[w].URL \in DOMAIN siteMap

\* the task list has pairwise distinct URLs
DistinctURLs ==
    \A i, j \in 1..Len(urls) : i # j => urls[i].URL # urls[j].URL

\* C20: for a task list with pairwise distinct URLs, the sitemap of a
\* completed run holds for each key the complete sequence of links
\* discovered for that page, in discovery order.
C20_CompleteLinkLists ==
    mpc = "done" /\ DistinctURLs =>
        \A k \in DOMAIN siteMap : siteMap[k] = PageLinks(k)

\* C20 witness: a completed run over distinct URLs in which a page with
\* MaxAnchors links had both its sends drained and a second page has a key
C20_Witness ==
    /\ mpc = "done"
    /\ DistinctURLs
    /\ Cardinality(DOMAIN siteMap) >= 2
    /\ \E w \in Launched :
          /\ sent[w] = 2
          /\ pushed[w][1].Links = <<>>
          /\ Len(siteMap[urls[w].URL]) = MaxAnchors
          /\ siteMap[urls[w].URL] = pushed[w][2].Links

====
